---- MODULE Spec2Model ----
(***************************************************************************)
(* The PC platform interrupt layer of lk (platform/pc/interrupts.c): the   *)
(* two cascaded 8259 controllers, the cached interrupt masks, the handler  *)
(* table, and the calls platform_init_interrupts, mask_interrupt,          *)
(* unmask_interrupt, register_int_handler and platform_irq.                *)
(*                                                                         *)
(* Each call is one action.  The C code of a call is translated as an      *)
(* operator on a record holding the memory and the device registers the    *)
(* code touches; the record's "trace" collects what the call did, in       *)
(* order: lock and unlock, port reads and writes, handler invocations.     *)
(* SpecSteps runs the same code statement by statement, with interrupts    *)
(* arriving in between.                                                    *)
(***************************************************************************)
EXTENDS Integers, Sequences, FiniteSets

(***************************************************************************)
(* Program constants.                                                      *)
(***************************************************************************)
\* interrupts.c:24-28
PIC1 == 32
PIC2 == 160
ICW1 == 17
\* the end-of-interrupt command word, interrupts.c:124
EOI == 32
\* the lowest vector platform_irq accepts, interrupts.c:185
IRQ_MIN == 32
\* platform/pc.h (not among the sources): the remap bases, the vector of the
\* master line the slave is wired to, and the size of the handler table.
PIC1_BASE == 32
PIC2_BASE == 40
INT_PIC2 == 34
INT_VECTORS == 49

\* the null handler and the null context
NULL == 0

(***************************************************************************)
(* Bounds of the model.                                                    *)
(***************************************************************************)
\* how many vectors at and above INT_VECTORS the calls are tried with
MaxBeyond == 1
\* each context's invocation counter stops the run at this value
MaxCount == 2
\* how many interrupts the processor takes in the statement-level runs
MaxIrq == 1

\* the handlers and the contexts that get registered
Handlers == {1, 2}

Contexts == {1, 2}

VARIABLES
    booted,             \* platform_init_interrupts has run
    halted,             \* panic() was called: nothing runs any more
    irqMask,            \* the cached masks, irqMask[0] master, irqMask[1] slave
    imr,                \* the controllers' interrupt mask registers
    icw,                \* per controller: initialization words still expected
    int_handler_table,  \* the handler and the arg of every vector
    lock,               \* the spin lock: 0 free, 1 held
    ints,               \* the processor's interrupt-enable flag
    ctr,                \* per context: how often a handler was invoked with it
    last,               \* the call that ran last: [op, vector, handler, arg]
    ret,                \* what that call returned
    trace,              \* what that call did, in order
    pre,                \* the mask registers as they were before that call
    lookups,            \* the indices at which that call read the table
    stack,              \* the calls in progress on the processor, newest last
    irqs,               \* how many interrupts the processor has taken
    installed           \* the <<vector, handler, arg>> of the registrations made
                        \* statement by statement

vars == <<booted, halted, irqMask, imr, icw, int_handler_table, lock, ints,
          ctr, last, ret, trace, pre, lookups, stack, irqs, installed>>

(***************************************************************************)
(* 8-bit arithmetic on masks.  A "bit" is a power of two below 256.        *)
(***************************************************************************)
U8(x) == x % 256

Shl1(n) == U8(2 ^ n)

\* m & bit is not zero
HasBit(m, bit) == bit > 0 /\ (m \div bit) % 2 = 1

\* (mutant) m & bit: the complement is left out
AndNot_NoComplement(m, bit) == IF HasBit(m, bit) THEN bit ELSE 0

\* m & ~bit
AndNot(m, bit) == IF HasBit(m, bit) THEN m - bit ELSE m

\* m | bit
Or(m, bit) == IF HasBit(m, bit) THEN m ELSE m + bit

(***************************************************************************)
(* The trace of a call: events of kind "lock", "unlock", "out" (port,      *)
(* byte), "in" (port, byte), "arg" and "handler" (the stores of            *)
(* registration: vector, value), "call" (handler, context), "return" (of a *)
(* handler: 1 for INT_RESCHEDULE, 0 for INT_NO_RESCHEDULE) and "panic".    *)
(***************************************************************************)
Ev(k, a, b) == [k |-> k, a |-> a, b |-> b]

Log(s, e) == [s EXCEPT !.trace = Append(@, e)]

(***************************************************************************)
(* The two controllers as the code sees them through port I/O.  ICW1 on a  *)
(* command port starts the initialization sequence: the next three bytes   *)
(* written to the data port are ICW2..ICW4.  Any other byte written to the *)
(* data port is the interrupt mask; a read of the data port returns the    *)
(* mask last written.                                                      *)
(***************************************************************************)
Ctl(port) == IF port = PIC1 \/ port = PIC1 + 1 THEN 0 ELSE 1

IsData(port) == port = PIC1 + 1 \/ port = PIC2 + 1

outp(s, port, val) ==
    LET c == Ctl(port)
        t == Log(s, Ev("out", port, val))
    IN  IF IsData(port)
        THEN IF t.icw[c] > 0
             THEN [t EXCEPT !.icw[c] = @ - 1]
             ELSE [t EXCEPT !.imr[c] = U8(val)]
        ELSE IF HasBit(val, 16)
             THEN [t EXCEPT !.icw[c] = 3]
             ELSE t

inp(s, port) == s.imr[Ctl(port)]

\* irqMask[c] = inp(port)
ReadMask(s, c, port) ==
    [Log(s, Ev("in", port, inp(s, port))) EXCEPT !.irqMask[c] = inp(s, port)]

\* map with the masks written before the mode commands
map_MaskBeforeMode(s, pic1, pic2) ==
    LET a1 == outp(s, PIC1, ICW1)
        a2 == outp(a1, PIC2, ICW1)
        b1 == outp(a2, PIC1 + 1, pic1)
        b2 == outp(b1, PIC2 + 1, pic2)
        c1 == outp(b2, PIC1 + 1, 4)
        c2 == outp(c1, PIC2 + 1, 2)
        e1 == outp(c2, PIC1 + 1, 255)
        e2 == outp(e1, PIC2 + 1, 255)
        d1 == outp(e2, PIC1 + 1, 5)
        d2 == outp(d1, PIC2 + 1, 1)
    IN  [d2 EXCEPT !.irqMask = [c \in 0..1 |-> 255]]

(***************************************************************************)
(* map: initialize and remap both controllers, all lines disabled.         *)
(***************************************************************************)
map(s, pic1, pic2) ==
    LET a1 == outp(s, PIC1, ICW1)
        a2 == outp(a1, PIC2, ICW1)
        b1 == outp(a2, PIC1 + 1, pic1)
        b2 == outp(b1, PIC2 + 1, pic2)
        c1 == outp(b2, PIC1 + 1, 4)
        c2 == outp(c1, PIC2 + 1, 2)
        d1 == outp(c2, PIC1 + 1, 5)
        d2 == outp(d1, PIC2 + 1, 1)
        e1 == outp(d2, PIC1 + 1, 255)
        e2 == outp(e1, PIC2 + 1, 255)
    IN  [e2 EXCEPT !.irqMask = [c \in 0..1 |-> 255]]

(***************************************************************************)
(* enable: the read-modify-write of one mask bit, and the cascade rule.    *)
(***************************************************************************)
\* (mutant) the register is not read back after the write
ClearBit_NoReadBack(s, c, port, bit) ==
    LET r == ReadMask(s, c, port)
        m == [r EXCEPT !.irqMask[c] = AndNot(@, bit)]
    IN  outp(m, port, m.irqMask[c])

\* irqMask[c] = inp(port); irqMask[c] &= ~bit; outp(port, irqMask[c]);
\* irqMask[c] = inp(port);
ClearBit(s, c, port, bit) ==
    LET r == ReadMask(s, c, port)
        m == [r EXCEPT !.irqMask[c] = AndNot(@, bit)]
        w == outp(m, port, m.irqMask[c])
    IN  ReadMask(w, c, port)

\* (mutant) the write of the new mask to the register is left out
SetBit_NoWrite(s, c, port, bit) ==
    LET r == ReadMask(s, c, port)
        m == [r EXCEPT !.irqMask[c] = Or(@, bit)]
    IN  ReadMask(m, c, port)

\* irqMask[c] = inp(port); irqMask[c] |= bit; outp(port, irqMask[c]);
\* irqMask[c] = inp(port);
SetBit(s, c, port, bit) ==
    LET r == ReadMask(s, c, port)
        m == [r EXCEPT !.irqMask[c] = Or(@, bit)]
        w == outp(m, port, m.irqMask[c])
    IN  ReadMask(w, c, port)

\* the if / else if on one line's bit
SetLine(s, c, port, bit, en) ==
    IF en /\ HasBit(s.irqMask[c], bit) THEN ClearBit(s, c, port, bit)
    ELSE IF ~en /\ ~HasBit(s.irqMask[c], bit) THEN SetBit(s, c, port, bit)
    ELSE s

\* the bit of the master line the slave is wired to
CascadeBit == Shl1(INT_PIC2 - PIC1_BASE)

\* the master's cascade bit after a change of the slave's mask
Cascade(s) ==
    IF s.irqMask[1] # 255 /\ HasBit(s.irqMask[0], CascadeBit)
    THEN ClearBit(s, 0, PIC1 + 1, CascadeBit)
    ELSE IF s.irqMask[1] = 0 /\ ~HasBit(s.irqMask[0], CascadeBit)
    THEN SetBit(s, 0, PIC1 + 1, CascadeBit)
    ELSE s

InMaster(vector) == vector >= PIC1_BASE /\ vector < PIC1_BASE + 8

\* (mutant) the slave range taken one vector too long
InSlave_Inclusive(vector) == vector >= PIC2_BASE /\ vector <= PIC2_BASE + 8

InSlave(vector) == vector >= PIC2_BASE /\ vector < PIC2_BASE + 8

enable(s, vector, en) ==
    IF InMaster(vector)
    THEN SetLine(s, 0, PIC1 + 1, Shl1(vector - PIC1_BASE), en)
    ELSE IF InSlave(vector)
    THEN Cascade(SetLine(s, 1, PIC2 + 1, Shl1(vector - PIC2_BASE), en))
    ELSE s

(***************************************************************************)
(* The spin lock, taken with the interrupt flag saved and cleared.         *)
(***************************************************************************)
spin_lock_irqsave(s) ==
    [Log(s, Ev("lock", 0, 0)) EXCEPT !.lock = 1, !.ints = FALSE]

spin_unlock_irqrestore(s, state) ==
    [Log(s, Ev("unlock", 0, 0)) EXCEPT !.lock = 0, !.ints = state]

Return(s, r) == [s EXCEPT !.ret = r]

\* (mutant) the range check lets INT_VECTORS itself through
mask_interrupt_OffByOne(s, vector) ==
    IF vector > INT_VECTORS
    THEN Return(s, "ERR_INVALID_ARGS")
    ELSE LET state == s.ints
             l == spin_lock_irqsave(s)
             e == enable(l, vector, FALSE)
             u == spin_unlock_irqrestore(e, state)
         IN  Return(u, "NO_ERROR")

mask_interrupt(s, vector) ==
    IF vector >= INT_VECTORS
    THEN Return(s, "ERR_INVALID_ARGS")
    ELSE LET state == s.ints
             l == spin_lock_irqsave(s)
             e == enable(l, vector, FALSE)
             u == spin_unlock_irqrestore(e, state)
         IN  Return(u, "NO_ERROR")

unmask_interrupt(s, vector) ==
    IF vector >= INT_VECTORS
    THEN Return(s, "ERR_INVALID_ARGS")
    ELSE LET state == s.ints
             l == spin_lock_irqsave(s)
             e == enable(l, vector, TRUE)
             u == spin_unlock_irqrestore(e, state)
         IN  Return(u, "NO_ERROR")

\* an entry without a handler
NoEntry == [handler |-> NULL, arg |-> NULL]

(***************************************************************************)
(* The memory and registers at the entry of a call, with an empty trace.   *)
(* beyond is what a read past the end of int_handler_table finds.          *)
(***************************************************************************)
Entry ==
    [irqMask |-> irqMask, imr |-> imr, icw |-> icw,
     table |-> int_handler_table, lock |-> lock, ints |-> ints,
     ctr |-> ctr, halted |-> FALSE, ret |-> "void", trace |-> <<>>,
     lookups |-> <<>>, beyond |-> NoEntry]

\* the state a call leaves
Leave(s, op, vector, handler, arg) ==
    /\ irqMask' = s.irqMask
    /\ imr' = s.imr
    /\ icw' = s.icw
    /\ int_handler_table' = s.table
    /\ lock' = s.lock
    /\ ints' = s.ints
    /\ ctr' = s.ctr
    /\ halted' = s.halted
    /\ ret' = s.ret
    /\ trace' = s.trace
    /\ last' = [op |-> op, vector |-> vector, handler |-> handler, arg |-> arg]
    /\ pre' = imr
    /\ lookups' = s.lookups
    /\ UNCHANGED <<stack, irqs, installed>>

\* a call can start: the system runs, and nobody holds the lock
Ready == booted /\ ~halted /\ lock = 0

(***************************************************************************)
(* The state before platform_init_interrupts: zeroed statics, and mask     *)
(* registers holding whatever the firmware left.                           *)
(***************************************************************************)
BootImr == {[c \in 0..1 |-> 0], [c \in 0..1 |-> IF c = 0 THEN 184 ELSE 142]}

Init ==
    /\ booted = FALSE
    /\ halted = FALSE
    /\ irqMask = [c \in 0..1 |-> 0]
    /\ imr \in BootImr
    /\ icw = [c \in 0..1 |-> 0]
    /\ int_handler_table = [handler |-> [v \in 0..(INT_VECTORS - 1) |-> NULL],
                            arg |-> [v \in 0..(INT_VECTORS - 1) |-> NULL]]
    /\ lock = 0
    /\ ints = TRUE
    /\ ctr = [a \in Contexts |-> 0]
    /\ last = [op |-> "none", vector |-> 0, handler |-> NULL, arg |-> NULL]
    /\ ret = "void"
    /\ trace = <<>>
    /\ pre = imr
    /\ lookups = <<>>
    /\ stack = <<>>
    /\ irqs = 0
    /\ installed = {}

\* rebase the controllers out of the way of the processor exceptions
platform_init_interrupts(s) == map(s, PIC1_BASE, PIC2_BASE)

PlatformInitInterrupts ==
    /\ ~booted
    /\ booted' = TRUE
    /\ Leave(platform_init_interrupts(Entry), "init", 0, NULL, NULL)

MaskInterrupt(v) ==
    /\ Ready
    /\ UNCHANGED booted
    /\ Leave(mask_interrupt(Entry, v), "mask", v, NULL, NULL)

UnmaskInterrupt(v) ==
    /\ Ready
    /\ UNCHANGED booted
    /\ Leave(unmask_interrupt(Entry, v), "unmask", v, NULL, NULL)

(***************************************************************************)
(* panic: the system stops; the call does not return.                      *)
(***************************************************************************)
panic(s) == [Log(s, Ev("panic", 0, 0)) EXCEPT !.halted = TRUE, !.ret = "PANIC"]

\* (mutant) the range check made after the lock is taken
register_int_handler_CheckUnderLock(s, vector, handler, arg) ==
    LET state == s.ints
        l == spin_lock_irqsave(s)
    IN  IF vector >= INT_VECTORS
        THEN panic(l)
        ELSE LET a == [Log(l, Ev("arg", vector, arg))
                          EXCEPT !.table.arg[vector] = arg]
                 h == [Log(a, Ev("handler", vector, handler))
                          EXCEPT !.table.handler[vector] = handler]
             IN  spin_unlock_irqrestore(h, state)

\* (mutant) the store of the context is left out
register_int_handler_NoArg(s, vector, handler, arg) ==
    IF vector >= INT_VECTORS
    THEN panic(s)
    ELSE LET state == s.ints
             l == spin_lock_irqsave(s)
             h == [Log(l, Ev("handler", vector, handler))
                      EXCEPT !.table.handler[vector] = handler]
         IN  spin_unlock_irqrestore(h, state)

register_int_handler(s, vector, handler, arg) ==
    IF vector >= INT_VECTORS
    THEN panic(s)
    ELSE LET state == s.ints
             l == spin_lock_irqsave(s)
             a == [Log(l, Ev("arg", vector, arg))
                      EXCEPT !.table.arg[vector] = arg]
             h == [Log(a, Ev("handler", vector, handler))
                      EXCEPT !.table.handler[vector] = handler]
         IN  spin_unlock_irqrestore(h, state)

(***************************************************************************)
(* issueEOI: acknowledge on the master, or on the slave and then the       *)
(* master.                                                                 *)
(***************************************************************************)
\* (mutant) the master acknowledged before the slave
issueEOI_MasterFirst(s, vector) ==
    IF vector >= PIC1_BASE /\ vector <= PIC1_BASE + 7
    THEN outp(s, PIC1, EOI)
    ELSE IF vector >= PIC2_BASE /\ vector <= PIC2_BASE + 7
    THEN outp(outp(s, PIC1, EOI), PIC2, EOI)
    ELSE s

\* (mutant) the acknowledgement written to the data ports
issueEOI_DataPort(s, vector) ==
    IF vector >= PIC1_BASE /\ vector <= PIC1_BASE + 7
    THEN outp(s, PIC1 + 1, EOI)
    ELSE IF vector >= PIC2_BASE /\ vector <= PIC2_BASE + 7
    THEN outp(outp(s, PIC2 + 1, EOI), PIC1 + 1, EOI)
    ELSE s

issueEOI(s, vector) ==
    IF vector >= PIC1_BASE /\ vector <= PIC1_BASE + 7
    THEN outp(s, PIC1, EOI)
    ELSE IF vector >= PIC2_BASE /\ vector <= PIC2_BASE + 7
    THEN outp(outp(s, PIC2, EOI), PIC1, EOI)
    ELSE s

(***************************************************************************)
(* A handler is kernel code outside this file.  The handlers of the model  *)
(* count their invocations in their context and report the outcome the     *)
(* environment chose.  A call through a word that is not the address of a  *)
(* handler does not come back: the system is lost.                         *)
(***************************************************************************)
Code(outcome) == IF outcome = "INT_RESCHEDULE" THEN 1 ELSE 0

\* a word that is neither NULL nor the address of a handler
Wild == NULL - 1

Invoke(s, handler, arg, outcome) ==
    IF handler \in Handlers
    THEN LET c == [Log(s, Ev("call", handler, arg))
                      EXCEPT !.ctr[arg] = @ + 1]
         IN  Return(Log(c, Ev("return", Code(outcome), 0)), outcome)
    ELSE [Log(s, Ev("call", handler, arg))
             EXCEPT !.halted = TRUE, !.ret = "CRASH"]

\* int_handler_table[index], read.  The table has INT_VECTORS entries: a
\* read at or above INT_VECTORS is a read of whatever lies behind it.
Look(s, index) == [s EXCEPT !.lookups = Append(@, index)]

TableAt(s, index) ==
    IF index < INT_VECTORS
    THEN [handler |-> s.table.handler[index], arg |-> s.table.arg[index]]
    ELSE s.beyond

\* if (int_handler_table[vector].handler)
\*     ret = int_handler_table[vector].handler(int_handler_table[vector].arg);
Deliver(s, vector, outcome) ==
    LET t == Look(s, vector)
    IN  IF TableAt(t, vector).handler # NULL
        THEN Invoke(Look(t, vector), TableAt(t, vector).handler,
                    TableAt(t, vector).arg, outcome)
        ELSE t

(***************************************************************************)
(* platform_irq, entered from the trap layer with the vector of the frame. *)
(* DEBUG_ASSERT panics when its condition fails.  The vector is not        *)
(* compared with INT_VECTORS.  issueEOI is reached only if the handler     *)
(* call came back.                                                         *)
(***************************************************************************)
\* (mutant) the interrupt acknowledged before it is delivered
platform_irq_EoiFirst(s, vector, outcome) ==
    IF ~(vector >= IRQ_MIN)
    THEN panic(s)
    ELSE LET r == Return(s, "INT_NO_RESCHEDULE")
             e == issueEOI(r, vector)
         IN  Deliver(e, vector, outcome)

\* (mutant) the outcome starts as INT_RESCHEDULE
platform_irq_DefaultResched(s, vector, outcome) ==
    IF ~(vector >= IRQ_MIN)
    THEN panic(s)
    ELSE LET r == Return(s, "INT_RESCHEDULE")
             d == Deliver(r, vector, outcome)
         IN  IF d.halted THEN d ELSE issueEOI(d, vector)

\* (mutant) the assertion made after the handler has run
platform_irq_AssertLate(s, vector, outcome) ==
    LET r == Return(s, "INT_NO_RESCHEDULE")
        d == Deliver(r, vector, outcome)
    IN  IF d.halted
        THEN d
        ELSE IF ~(vector >= IRQ_MIN)
        THEN panic(d)
        ELSE issueEOI(d, vector)

platform_irq(s, vector, outcome) ==
    IF ~(vector >= IRQ_MIN)
    THEN panic(s)
    ELSE LET r == Return(s, "INT_NO_RESCHEDULE")
             d == Deliver(r, vector, outcome)
         IN  IF d.halted THEN d ELSE issueEOI(d, vector)

RegisterIntHandler(v, h, a) ==
    /\ Ready
    /\ UNCHANGED booted
    /\ Leave(register_int_handler(Entry, v, h, a), "register", v, h, a)

\* What lies behind the table is not this file's to say, and differs from
\* build to build: a zero word (no handler), the address of some handler
\* with some context, or any other word.
Stray == {NoEntry} \cup [handler : Handlers \cup {Wild}, arg : Contexts]

Memory(v) == IF v < INT_VECTORS THEN {NoEntry} ELSE Stray

\* The interrupt gate clears the interrupt flag on entry; the return from the
\* interrupt restores it, if platform_irq returns.  A call that would take a
\* context's counter past MaxCount is not made.
PlatformIrq(v, outcome) ==
    /\ Ready
    /\ ints
    /\ UNCHANGED booted
    /\ \E m \in Memory(v) :
           LET e == [Entry EXCEPT !.ints = FALSE, !.beyond = m]
               r == platform_irq(e, v, outcome)
           IN  /\ \A a \in Contexts : r.ctr[a] <= MaxCount
               /\ Leave(IF r.halted THEN r ELSE [r EXCEPT !.ints = TRUE],
                        "dispatch", v, NULL, NULL)

(***************************************************************************)
(* Slave lines only.                                                       *)
(***************************************************************************)
SlaveVectors == PIC2_BASE..(PIC2_BASE + 7)

MaskSlave == \E v \in SlaveVectors : MaskInterrupt(v)

UnmaskSlave == \E v \in SlaveVectors : UnmaskInterrupt(v)

NextSlave == PlatformInitInterrupts \/ MaskSlave \/ UnmaskSlave

SpecSlave == Init /\ [][NextSlave]_vars

(***************************************************************************)
(* Mask and unmask on every kind of vector: all slave lines, master line 1 *)
(* and the cascade line, vectors in range with no line behind them, and    *)
(* vectors at and beyond INT_VECTORS.                                      *)
(***************************************************************************)
Beyond == INT_VECTORS..(INT_VECTORS + MaxBeyond - 1)

LineVectors ==
    SlaveVectors \cup {PIC1_BASE + 1, INT_PIC2}
                 \cup {PIC1_BASE - 1, INT_VECTORS - 1} \cup Beyond

MaskLine == \E v \in LineVectors : MaskInterrupt(v)

UnmaskLine == \E v \in LineVectors : UnmaskInterrupt(v)

NextLines == PlatformInitInterrupts \/ MaskLine \/ UnmaskLine

SpecLines == Init /\ [][NextLines]_vars

(***************************************************************************)
(* Registration and dispatch, with one master line masked and unmasked.    *)
(* The vector below IRQ_MIN is one platform_irq refuses; PIC2_BASE and     *)
(* either base + 7 are the ends of the ranges issueEOI tells apart.        *)
(***************************************************************************)
Outcomes == {"INT_NO_RESCHEDULE", "INT_RESCHEDULE"}

IrqMaskVectors == {PIC1_BASE + 1}

RegVectors == {IRQ_MIN - 1, PIC1_BASE + 1, PIC2_BASE + 1} \cup Beyond

DispatchVectors ==
    {IRQ_MIN - 1, PIC1_BASE + 1, PIC1_BASE + 7,
     PIC2_BASE, PIC2_BASE + 1, PIC2_BASE + 7, INT_VECTORS - 1}

Mask == \E v \in IrqMaskVectors : MaskInterrupt(v)

Unmask == \E v \in IrqMaskVectors : UnmaskInterrupt(v)

Register ==
    \E v \in RegVectors, h \in {NULL} \cup Handlers, a \in Contexts :
        RegisterIntHandler(v, h, a)

Dispatch == \E v \in DispatchVectors, o \in Outcomes : PlatformIrq(v, o)

Next == PlatformInitInterrupts \/ Mask \/ Unmask \/ Register \/ Dispatch

Spec == Init /\ [][Next]_vars

(***************************************************************************)
(* The same code statement by statement, on one processor.  A call in      *)
(* progress is a frame on the stack; the newest frame runs.  An interrupt  *)
(* is taken between any two statements while the interrupt flag is set: it *)
(* pushes a platform_irq frame over whatever was running, and the handler  *)
(* platform_irq calls may itself call mask_interrupt, unmask_interrupt or  *)
(* register_int_handler.  The statements of each function, in the order of *)
(* the source:                                                             *)
(***************************************************************************)
MaskProgram == << "range", "lock", "disable", "unlock" >>

\* (mutant) unmask_interrupt changes the masks before it takes the lock
UnmaskProgram_EnableUnlocked == << "range", "enable", "lock", "unlock" >>

UnmaskProgram == << "range", "lock", "enable", "unlock" >>

\* (mutant) register_int_handler stores before it takes the lock
RegisterProgram_StoresUnlocked == << "valid", "arg", "handler", "lock", "unlock" >>

\* (mutant) register_int_handler returns without releasing the lock
RegisterProgram_NoUnlock == << "valid", "lock", "arg", "handler" >>

RegisterProgram == << "valid", "lock", "arg", "handler", "unlock" >>

IrqProgram == << "assert", "test", "call", "body", "eoi" >>

Program(fn) ==
    CASE fn = "mask" -> MaskProgram
      [] fn = "unmask" -> UnmaskProgram
      [] fn = "register" -> RegisterProgram
      [] fn = "irq" -> IrqProgram

\* a frame: the function, the index of its next statement, its arguments and
\* locals (state: the flag spin_lock_irqsave saved, or the flag the interrupt
\* gate saved; handler, arg: the arguments of a registration, or what
\* platform_irq read from the table), and what the properties need to know:
\* was (the interrupt flag when the call began), holds (the frame took the
\* lock and has not released it), called (platform_irq invoked a handler),
\* nested (that handler made its call)
Frame(fn, vector, handler, arg, flag) ==
    [fn |-> fn, at |-> 1, vector |-> vector, handler |-> handler, arg |-> arg,
     state |-> FALSE, was |-> flag, holds |-> FALSE, called |-> FALSE,
     nested |-> FALSE]

Top == stack[Len(stack)]

Stmt(f) == Program(f.fn)[f.at]

\* one statement of frame f on memory s: the memory and the frame after it,
\* and whether the statement returned from the function
Exec(f, s) ==
    LET st == Stmt(f)
        go == [s |-> s, f |-> f, quit |-> FALSE]
    IN  CASE st = "range" ->
                 IF f.vector >= INT_VECTORS
                 THEN [go EXCEPT !.quit = TRUE]
                 ELSE go
          [] st = "valid" ->
                 IF f.vector >= INT_VECTORS
                 THEN [go EXCEPT !.s = panic(s)]
                 ELSE go
          [] st = "lock" ->
                 [go EXCEPT !.s = spin_lock_irqsave(s),
                            !.f.state = s.ints, !.f.holds = TRUE]
          [] st = "disable" -> [go EXCEPT !.s = enable(s, f.vector, FALSE)]
          [] st = "enable" -> [go EXCEPT !.s = enable(s, f.vector, TRUE)]
          [] st = "unlock" ->
                 [go EXCEPT !.s = spin_unlock_irqrestore(s, f.state),
                            !.f.holds = FALSE]
          [] st = "arg" -> [go EXCEPT !.s.table.arg[f.vector] = f.arg]
          [] st = "handler" ->
                 [go EXCEPT !.s.table.handler[f.vector] = f.handler]
          [] st = "assert" ->
                 IF ~(f.vector >= IRQ_MIN)
                 THEN [go EXCEPT !.s = panic(s)]
                 ELSE go
          [] st = "test" ->
                 [go EXCEPT !.f.handler = TableAt(s, f.vector).handler]
          [] st = "call" ->
                 IF f.handler # NULL
                 THEN LET e == TableAt(s, f.vector)
                      IN  [go EXCEPT
                              !.s = Invoke(s, e.handler, e.arg,
                                           "INT_NO_RESCHEDULE"),
                              !.f.handler = e.handler, !.f.arg = e.arg,
                              !.f.called = TRUE]
                 ELSE go
          [] st = "body" -> go
          [] st = "eoi" -> [go EXCEPT !.s = issueEOI(s, f.vector)]

\* the memory a statement leaves; the observations of the last whole call
\* stay as they are
Commit(s) ==
    /\ irqMask' = s.irqMask
    /\ imr' = s.imr
    /\ icw' = s.icw
    /\ int_handler_table' = s.table
    /\ lock' = s.lock
    /\ ints' = s.ints
    /\ ctr' = s.ctr
    /\ halted' = s.halted
    /\ UNCHANGED <<booted, last, ret, trace, pre, lookups>>

Running == booted /\ ~halted

\* The newest frame executes its next statement.  spin_lock_irqsave spins
\* while the lock is held.  After its last statement, or on an early return,
\* the frame is popped; the return from platform_irq is the return from the
\* interrupt, which restores the interrupt flag.
Run ==
    /\ Running
    /\ stack # <<>>
    /\ Stmt(Top) = "lock" => lock = 0
    /\ LET r == Exec(Top, Entry)
           f == [r.f EXCEPT !.at = @ + 1]
           below == SubSeq(stack, 1, Len(stack) - 1)
       IN  IF r.s.halted
           THEN Commit(r.s) /\ UNCHANGED stack
           ELSE IF r.quit \/ f.at > Len(Program(f.fn))
           THEN /\ stack' = below
                /\ IF f.fn = "irq"
                   THEN Commit([r.s EXCEPT !.ints = f.state])
                   ELSE Commit(r.s)
           ELSE /\ stack' = Append(below, f)
                /\ Commit(r.s)
    /\ UNCHANGED <<irqs, installed>>

\* the calls of the model: both operations on a slave line, which write
\* both mask registers, and on the first vector out of range; registrations
\* of each handler with a context of its own
StepLines == {PIC2_BASE}

StepPairs == {<<h, h>> : h \in Handlers}

\* a call: a new frame over the frames in progress
Push(base, f) ==
    /\ stack' = Append(base, f)
    /\ installed' = IF f.fn = "register" /\ f.vector < INT_VECTORS
                    THEN installed \cup {<<f.vector, f.handler, f.arg>>}
                    ELSE installed

SomeCall(base) ==
    \/ \E v \in StepLines \cup {INT_VECTORS} :
           Push(base, Frame("mask", v, NULL, NULL, ints))
    \/ \E v \in StepLines :
           Push(base, Frame("unmask", v, NULL, NULL, ints))
    \/ \E v \in {PIC1_BASE + 1, INT_VECTORS}, p \in StepPairs :
           Push(base, Frame("register", v, p[1], p[2], ints))

\* the kernel, interrupted by nothing at the moment, makes a call
KernelCall ==
    /\ Running
    /\ stack = <<>>
    /\ SomeCall(stack)
    /\ UNCHANGED <<booted, halted, irqMask, imr, icw, int_handler_table,
                   lock, ints, ctr, last, ret, trace, pre, lookups, irqs>>

\* the handler platform_irq has called makes a call
HandlerCall ==
    /\ Running
    /\ stack # <<>>
    /\ Stmt(Top) = "body"
    /\ Top.called
    /\ ~Top.nested
    /\ SomeCall([stack EXCEPT ![Len(stack)].nested = TRUE])
    /\ UNCHANGED <<booted, halted, irqMask, imr, icw, int_handler_table,
                   lock, ints, ctr, last, ret, trace, pre, lookups, irqs>>

\* The processor takes an interrupt: the gate saves the interrupt flag and
\* clears it.  At most MaxIrq interrupts are taken.
Interrupt(v) ==
    /\ Running
    /\ ints
    /\ irqs < MaxIrq
    /\ irqs' = irqs + 1
    /\ ints' = FALSE
    /\ stack' = Append(stack, [Frame("irq", v, NULL, NULL, ints)
                                  EXCEPT !.state = ints])
    /\ UNCHANGED <<booted, halted, irqMask, imr, icw, int_handler_table,
                   lock, ctr, last, ret, trace, pre, lookups, installed>>

StepIrqs == {IRQ_MIN - 1, PIC1_BASE + 1}

TakeInterrupt == \E v \in StepIrqs : Interrupt(v)

NextSteps ==
    PlatformInitInterrupts \/ KernelCall \/ HandlerCall \/ TakeInterrupt \/ Run

\* the processor keeps executing the running context
SpecSteps == Init /\ [][NextSteps]_vars /\ WF_vars(Run)

(***************************************************************************)
(* The trap layer: platform_irq with every vector from IRQ_MIN up, the     *)
(* vectors at and above INT_VECTORS among them, and registrations on a     *)
(* master vector and on the last vector of the table.                      *)
(***************************************************************************)
TrapVectors == IRQ_MIN..(INT_VECTORS + MaxBeyond - 1)

TrapRegVectors == {PIC1_BASE + 1, INT_VECTORS - 1}

RegisterTrap ==
    \E v \in TrapRegVectors, h \in {NULL} \cup Handlers, a \in Contexts :
        RegisterIntHandler(v, h, a)

DispatchTrap == \E v \in TrapVectors, o \in Outcomes : PlatformIrq(v, o)

NextTrap == PlatformInitInterrupts \/ RegisterTrap \/ DispatchTrap

SpecTrap == Init /\ [][NextTrap]_vars

(***************************************************************************)
(* What the properties below read off a trace.                             *)
(*                                                                         *)
(* A property of the form [][last'.op = ... => ...]_vars speaks of the     *)
(* step that makes the call last' names.  SpecLines and Spec have several  *)
(* calls that change nothing but last, ret, trace and pre (mask_interrupt  *)
(* and unmask_interrupt on a vector with no line, platform_irq on a vector *)
(* that never gets a handler), so every call is taken as a proper step,    *)
(* one that changes last, from every reachable state of the memory and the *)
(* registers.                                                              *)
(***************************************************************************)
IsMaskWrite(e) == e.k = "out" /\ (e.a = PIC1 + 1 \/ e.a = PIC2 + 1)

MaskWrites(tr) == SelectSeq(tr, IsMaskWrite)

IsOut(e) == e.k = "out"

Outs(tr) == SelectSeq(tr, IsOut)

IsPortIO(e) == e.k = "out" \/ e.k = "in"

PortIO(tr) == SelectSeq(tr, IsPortIO)

IsLock(e) == e.k = "lock"

Locks(tr) == SelectSeq(tr, IsLock)

IsMaskCall(l) == l.op = "mask" \/ l.op = "unmask"

IsCall(e) == e.k = "call"

Calls(tr) == SelectSeq(tr, IsCall)

\* the vectors with a line behind them, the controller that owns one, and
\* its bit in that controller's mask
MasterRange == PIC1_BASE..(PIC1_BASE + 7)

SlaveRange == PIC2_BASE..(PIC2_BASE + 7)

HwBacked(v) == v \in MasterRange \cup SlaveRange

Owner(v) == IF v \in MasterRange THEN 0 ELSE 1

LineBit(v) == IF v \in MasterRange THEN 2 ^ (v - PIC1_BASE)
              ELSE 2 ^ (v - PIC2_BASE)

\* the acknowledgement due for a vector
EoiOf(v) ==
    IF v \in MasterRange THEN << Ev("out", PIC1, EOI) >>
    ELSE IF v \in SlaveRange
    THEN << Ev("out", PIC2, EOI), Ev("out", PIC1, EOI) >>
    ELSE << >>

(***************************************************************************)
(* C1.  After platform_init_interrupts and any sequence of mask_interrupt  *)
(* and unmask_interrupt calls on slave vectors, bit 2 of the master mask   *)
(* (cache and register) is clear if and only if some bit of the slave mask *)
(* is clear.  Checked under SpecSlave; the code breaks it.                 *)
(***************************************************************************)
C1_CascadeIffSlaveLine ==
    booted =>
        /\ ~HasBit(irqMask[0], 4) <=> (irqMask[1] # 255)
        /\ ~HasBit(imr[0], 4) <=> (irqMask[1] # 255)

(***************************************************************************)
(* C2.  A mask_interrupt or unmask_interrupt call on a vector below        *)
(* INT_VECTORS that repeats the call made just before it writes no mask    *)
(* register, returns NO_ERROR and leaves the masks as the first call left  *)
(* them.  Checked under SpecLines; the code breaks it.                     *)
(***************************************************************************)
C2_SecondCallWritesNothing ==
    [][(/\ IsMaskCall(last)
        /\ last.vector < INT_VECTORS
        /\ last'.op = last.op
        /\ last'.vector = last.vector)
       => (/\ MaskWrites(trace') = <<>>
           /\ ret' = "NO_ERROR"
           /\ imr' = imr
           /\ irqMask' = irqMask
           /\ int_handler_table' = int_handler_table)]_vars

(***************************************************************************)
(* C3, as claimed.  For a hardware-backed vector v, unmask_interrupt(v)    *)
(* followed by mask_interrupt(v) leaves the mask register of v's           *)
(* controller as it was before the unmask_interrupt call (pre, in the      *)
(* state between the two calls).  Violated: the line may have been enabled *)
(* before the first call.                                                  *)
(***************************************************************************)
C3_RoundTripAnyState ==
    [][(/\ last.op = "unmask"
        /\ HwBacked(last.vector)
        /\ last'.op = "mask"
        /\ last'.vector = last.vector)
       => imr'[Owner(last.vector)] = pre[Owner(last.vector)]]_vars

(***************************************************************************)
(* C3, amended.  The same, for a vector v whose line was masked (its bit   *)
(* set in the mask register of its controller) before the                  *)
(* unmask_interrupt call.                                                  *)
(***************************************************************************)
C3_RoundTripFromMasked ==
    [][(/\ last.op = "unmask"
        /\ HwBacked(last.vector)
        /\ HasBit(pre[Owner(last.vector)], LineBit(last.vector))
        /\ last'.op = "mask"
        /\ last'.vector = last.vector)
       => imr'[Owner(last.vector)] = pre[Owner(last.vector)]]_vars

\* mask_interrupt has just disabled a slave line that an unmask_interrupt
\* had enabled, and the slave register is again all ones
C3_Witness ==
    /\ last.op = "mask"
    /\ last.vector = PIC2_BASE + 3
    /\ ~HasBit(pre[1], 8)
    /\ imr[1] = 255
    /\ Len(MaskWrites(trace)) = 1

(***************************************************************************)
(* C4.  mask_interrupt and unmask_interrupt on a vector at or above        *)
(* INT_VECTORS return ERR_INVALID_ARGS, do not take the lock, and leave    *)
(* the cached masks, the mask registers and the handler table as they      *)
(* were.  Checked under SpecLines.                                         *)
(***************************************************************************)
C4_InvalidVectorRejected ==
    [][(IsMaskCall(last') /\ last'.vector >= INT_VECTORS)
       => (/\ ret' = "ERR_INVALID_ARGS"
           /\ Locks(trace') = <<>>
           /\ lock' = lock
           /\ irqMask' = irqMask
           /\ imr' = imr
           /\ int_handler_table' = int_handler_table)]_vars

\* unmask_interrupt(INT_VECTORS) was refused while lines were enabled
C4_Witness ==
    /\ last.op = "unmask"
    /\ last.vector = INT_VECTORS
    /\ ret = "ERR_INVALID_ARGS"
    /\ trace = <<>>
    /\ imr[0] # 255
    /\ imr[1] # 255

(***************************************************************************)
(* C5, as claimed.  For every vector v below INT_VECTORS,                  *)
(* register_int_handler(v, h, arg) with h not null followed by             *)
(* platform_irq on v calls h once, with arg, then acknowledges v, and      *)
(* returns what h returned.  Violated for v below 0x20, where platform_irq *)
(* panics.  Checked under Spec.                                            *)
(***************************************************************************)
C5_RegisterThenDispatchAnyVector ==
    [][(/\ last.op = "register"
        /\ last.vector < INT_VECTORS
        /\ last.handler # NULL
        /\ last'.op = "dispatch"
        /\ last'.vector = last.vector)
       => \E o \in Outcomes :
              /\ trace' = << Ev("call", last.handler, last.arg),
                             Ev("return", Code(o), 0) >>
                               \o EoiOf(last.vector)
              /\ ret' = o
              /\ ~halted']_vars

(***************************************************************************)
(* C5, amended.  The same for every vector v from 0x20 to INT_VECTORS - 1. *)
(***************************************************************************)
C5_RegisterThenDispatch ==
    [][(/\ last.op = "register"
        /\ last.vector < INT_VECTORS
        /\ last.vector >= 32
        /\ last.handler # NULL
        /\ last'.op = "dispatch"
        /\ last'.vector = last.vector)
       => \E o \in Outcomes :
              /\ trace' = << Ev("call", last.handler, last.arg),
                             Ev("return", Code(o), 0) >>
                               \o EoiOf(last.vector)
              /\ ret' = o
              /\ ~halted']_vars

\* handler 2, registered on a slave vector with context 1, was called and
\* returned INT_NO_RESCHEDULE; both controllers were acknowledged after it
C5_Witness ==
    /\ last.op = "dispatch"
    /\ last.vector = PIC2_BASE + 1
    /\ int_handler_table.handler[PIC2_BASE + 1] = 2
    /\ int_handler_table.arg[PIC2_BASE + 1] = 1
    /\ trace = << Ev("call", 2, 1), Ev("return", 0, 0),
                  Ev("out", PIC2, EOI), Ev("out", PIC1, EOI) >>
    /\ ret = "INT_NO_RESCHEDULE"

(***************************************************************************)
(* C6, as claimed.  platform_irq on a vector whose table entry has no      *)
(* handler calls nothing, acknowledges the vector and returns              *)
(* INT_NO_RESCHEDULE, without a panic.  Violated for a vector below 0x20.  *)
(***************************************************************************)
C6_EmptyEntryAnyVector ==
    [][(/\ last'.op = "dispatch"
        /\ int_handler_table.handler[last'.vector] = NULL)
       => (/\ trace' = EoiOf(last'.vector)
           /\ ret' = "INT_NO_RESCHEDULE"
           /\ ~halted')]_vars

(***************************************************************************)
(* C6, amended.  The same for a vector from 0x20 to INT_VECTORS - 1.       *)
(***************************************************************************)
C6_EmptyEntry ==
    [][(/\ last'.op = "dispatch"
        /\ last'.vector >= 32
        /\ int_handler_table.handler[last'.vector] = NULL)
       => (/\ trace' = EoiOf(last'.vector)
           /\ ret' = "INT_NO_RESCHEDULE"
           /\ ~halted')]_vars

\* a master vector last registered with a null handler was dispatched
C6_Witness ==
    /\ last.op = "dispatch"
    /\ last.vector = PIC1_BASE + 1
    /\ int_handler_table.handler[PIC1_BASE + 1] = NULL
    /\ int_handler_table.arg[PIC1_BASE + 1] # NULL
    /\ trace = << Ev("out", PIC1, EOI) >>
    /\ ret = "INT_NO_RESCHEDULE"
    /\ ~halted

(***************************************************************************)
(* C7.  The port writes of platform_irq on a slave vector are the EOI      *)
(* command to the slave and then to the master, once each; on a master     *)
(* vector, the EOI command to the master alone.                            *)
(***************************************************************************)
C7_EoiOrder ==
    last.op = "dispatch" =>
        /\ last.vector \in SlaveRange =>
               Outs(trace) = << Ev("out", PIC2, EOI), Ev("out", PIC1, EOI) >>
        /\ last.vector \in MasterRange =>
               Outs(trace) = << Ev("out", PIC1, EOI) >>

\* the last slave vector was dispatched
C7_Witness ==
    /\ last.op = "dispatch"
    /\ last.vector = PIC2_BASE + 7
    /\ Len(Outs(trace)) = 2
    /\ trace[1].a = PIC2

(***************************************************************************)
(* C8.  platform_irq and register_int_handler write neither mask register  *)
(* nor the cached masks, so an enabled line stays enabled; and each        *)
(* platform_irq on a master vector with a handler calls it once: the       *)
(* counter of its context goes up by one.                                  *)
(***************************************************************************)
C8_DispatchKeepsMasks ==
    [][/\ (last'.op = "dispatch" \/ last'.op = "register")
           => (/\ irqMask' = irqMask
               /\ imr' = imr
               /\ MaskWrites(trace') = <<>>)
       /\ (/\ last'.op = "dispatch"
           /\ last'.vector \in MasterRange
           /\ int_handler_table.handler[last'.vector] # NULL)
           => (/\ Len(Calls(trace')) = 1
               /\ ctr' = [ctr EXCEPT
                             ![int_handler_table.arg[last'.vector]] = @ + 1])
      ]_vars

\* master line 1 is enabled, and its handler's context has counted MaxCount
\* invocations
C8_Witness ==
    /\ last.op = "dispatch"
    /\ last.vector = PIC1_BASE + 1
    /\ int_handler_table.handler[PIC1_BASE + 1] = 1
    /\ int_handler_table.arg[PIC1_BASE + 1] = 2
    /\ ctr[2] = MaxCount
    /\ ctr[1] = 0
    /\ ~HasBit(imr[0], 2)
    /\ ~HasBit(irqMask[0], 2)

(***************************************************************************)
(* C9.  register_int_handler on a vector at or above INT_VECTORS panics:   *)
(* it does not return, does not take the lock, and changes neither the     *)
(* handler table nor the masks.                                            *)
(***************************************************************************)
C9_RegisterOutOfRangePanics ==
    [][(last'.op = "register" /\ last'.vector >= INT_VECTORS)
       => (/\ halted'
           /\ ret' = "PANIC"
           /\ Locks(trace') = <<>>
           /\ lock' = lock
           /\ int_handler_table' = int_handler_table
           /\ irqMask' = irqMask
           /\ imr' = imr)]_vars

\* the system stopped in register_int_handler(INT_VECTORS, ...), with a
\* handler registered before
C9_Witness ==
    /\ halted
    /\ last.op = "register"
    /\ last.vector = INT_VECTORS
    /\ last.handler # NULL
    /\ int_handler_table.handler[PIC1_BASE + 1] # NULL

(***************************************************************************)
(* C10.  mask_interrupt and unmask_interrupt on a vector below INT_VECTORS *)
(* with no line behind it return NO_ERROR, read and write no port, and     *)
(* leave the cached masks and the mask registers as they were.  Checked    *)
(* under SpecLines.                                                        *)
(***************************************************************************)
C10_NoLineNoOp ==
    [][(/\ IsMaskCall(last')
        /\ last'.vector < INT_VECTORS
        /\ ~HwBacked(last'.vector))
       => (/\ ret' = "NO_ERROR"
           /\ PortIO(trace') = <<>>
           /\ irqMask' = irqMask
           /\ imr' = imr)]_vars

\* mask_interrupt on the vector just above the slave range, with lines
\* enabled on both controllers
C10_Witness ==
    /\ last.op = "mask"
    /\ last.vector = PIC2_BASE + 8
    /\ ret = "NO_ERROR"
    /\ trace = << Ev("lock", 0, 0), Ev("unlock", 0, 0) >>
    /\ imr[0] # 255
    /\ imr[1] # 255

\* the bytes a call wrote to one controller, in order
OnMaster(e) == IsOut(e) /\ Ctl(e.a) = 0

OnSlave(e) == IsOut(e) /\ Ctl(e.a) = 1

(***************************************************************************)
(* C11.  platform_init_interrupts writes to each controller, in this       *)
(* order, ICW1 (command port), the base vector, the cascade wiring byte    *)
(* (4 on the master: a slave on line 2; 2 on the slave: its identity), the *)
(* mode command and only then 0xff, the last four on the data port.  The   *)
(* 0xff lands in the mask register: when the call returns both mask        *)
(* registers and both cached masks are 0xff.  Checked under SpecSlave.     *)
(***************************************************************************)
C11_InitOrder ==
    last.op = "init" =>
        LET m == SelectSeq(trace, OnMaster)
            n == SelectSeq(trace, OnSlave)
        IN  /\ Len(m) = 5
            /\ m[1] = Ev("out", PIC1, ICW1)
            /\ m[2] = Ev("out", PIC1 + 1, PIC1_BASE)
            /\ m[3] = Ev("out", PIC1 + 1, 4)
            /\ m[4].a = PIC1 + 1
            /\ m[5] = Ev("out", PIC1 + 1, 255)
            /\ Len(n) = 5
            /\ n[1] = Ev("out", PIC2, ICW1)
            /\ n[2] = Ev("out", PIC2 + 1, PIC2_BASE)
            /\ n[3] = Ev("out", PIC2 + 1, 2)
            /\ n[4].a = PIC2 + 1
            /\ n[5] = Ev("out", PIC2 + 1, 255)
            /\ icw = [c \in 0..1 |-> 0]
            /\ imr = [c \in 0..1 |-> 255]
            /\ irqMask = [c \in 0..1 |-> 255]

\* the controllers were initialized a second time, with lines enabled on
\* both before the call
C11_Witness ==
    /\ last.op = "init"
    /\ pre[0] # 255
    /\ pre[1] # 255
    /\ HasBit(pre[0], 4) = FALSE
    /\ imr = [c \in 0..1 |-> 255]

(***************************************************************************)
(* C13.  In every state reached from platform_init_interrupts by           *)
(* mask_interrupt and unmask_interrupt calls on any vectors, the master's  *)
(* own cascade line INT_PIC2 included, bit 2 of the master's cached mask   *)
(* is clear if and only if the slave's cached mask is not 0xff.  Checked   *)
(* under SpecLines; the code breaks it.                                    *)
(***************************************************************************)
C13_CascadeIffAnyLine ==
    booted =>
        (~HasBit(irqMask[0], CascadeBit) <=> (irqMask[1] # 255))

(***************************************************************************)
(* C14.  Between calls, when the lock is free, each cached mask equals the *)
(* mask register of its controller (a read of the data port returns the    *)
(* byte last written as a mask); and in mask_interrupt and                 *)
(* unmask_interrupt every write to a mask register is followed at once by  *)
(* a read of that register, which returns the byte written and goes into   *)
(* the cache.  Checked under SpecLines.                                    *)
(***************************************************************************)
C14_CacheIsRegister ==
    /\ (booted /\ lock = 0) => irqMask = imr
    /\ IsMaskCall(last) =>
           \A i \in 1..Len(trace) :
               IsMaskWrite(trace[i]) =>
                   /\ i < Len(trace)
                   /\ trace[i + 1] = Ev("in", trace[i].a, trace[i].b)

\* unmask_interrupt on a slave vector has written both mask registers, and
\* read both back
C14_Witness ==
    /\ last.op = "unmask"
    /\ last.vector \in SlaveRange
    /\ Len(MaskWrites(trace)) = 2
    /\ lock = 0
    /\ irqMask[0] # 255
    /\ irqMask[1] # 255
    /\ irqMask = imr

\* the bits of mask m other than one bit
Rest(m, bit) == IF HasBit(m, bit) THEN m - bit ELSE m

(***************************************************************************)
(* C17.  For a vector v with a line behind it, unmask_interrupt(v) ends    *)
(* with v's bit clear and mask_interrupt(v) with v's bit set in the mask   *)
(* of the controller that owns v, cache and register alike.  Every other   *)
(* bit of both masks is as before the call, except bit 2 of the master     *)
(* mask when v is a slave vector.  Checked under SpecLines.                *)
(***************************************************************************)
C17_OnlyOwnBit ==
    [][(IsMaskCall(last') /\ HwBacked(last'.vector))
       => LET v == last'.vector
              o == Owner(v)
              b == LineBit(v)
          IN  /\ HasBit(irqMask'[o], b) <=> (last'.op = "mask")
              /\ HasBit(imr'[o], b) <=> (last'.op = "mask")
              /\ Rest(irqMask'[o], b) = Rest(irqMask[o], b)
              /\ Rest(imr'[o], b) = Rest(imr[o], b)
              /\ v \in MasterRange
                     => (irqMask'[1] = irqMask[1] /\ imr'[1] = imr[1])
              /\ v \in SlaveRange
                     => (/\ Rest(irqMask'[0], CascadeBit)
                             = Rest(irqMask[0], CascadeBit)
                         /\ Rest(imr'[0], CascadeBit)
                             = Rest(imr[0], CascadeBit))]_vars

\* the last slave line was masked while other lines of both controllers
\* stayed enabled
C17_Witness ==
    /\ last.op = "mask"
    /\ last.vector = PIC2_BASE + 7
    /\ pre[1] < 128
    /\ imr[1] >= 128
    /\ imr[1] # 255
    /\ ~HasBit(imr[0], 2)

(***************************************************************************)
(* C16.  The handler table starts empty; register_int_handler on a vector  *)
(* below INT_VECTORS makes the entry of that vector the handler and the    *)
(* context of the call (a NULL handler leaves the entry without a          *)
(* handler), changes no other entry and no mask, cached or in a register;  *)
(* and no other call changes the table.  So every entry is the pair of the *)
(* latest registration for its vector.  Checked under Spec.                *)
(***************************************************************************)
C16_LatestRegistration ==
    /\ \A v \in 0..(INT_VECTORS - 1) : int_handler_table.handler[v] = NULL
    /\ [][IF last'.op = "register" /\ last'.vector < INT_VECTORS
          THEN /\ int_handler_table'.handler =
                      [int_handler_table.handler
                          EXCEPT ![last'.vector] = last'.handler]
               /\ int_handler_table'.arg =
                      [int_handler_table.arg
                          EXCEPT ![last'.vector] = last'.arg]
               /\ irqMask' = irqMask
               /\ imr' = imr
          ELSE int_handler_table' = int_handler_table]_vars

\* a slave vector's entry was overwritten with a NULL handler while a
\* master vector keeps its handler and a master line is enabled
C16_Witness ==
    /\ last.op = "register"
    /\ last.vector = PIC2_BASE + 1
    /\ last.handler = NULL
    /\ int_handler_table.handler[PIC2_BASE + 1] = NULL
    /\ int_handler_table.arg[PIC2_BASE + 1] = 2
    /\ int_handler_table.handler[PIC1_BASE + 1] = 2
    /\ int_handler_table.arg[PIC1_BASE + 1] = 1
    /\ imr[0] # 255

(***************************************************************************)
(* C20.  For every vector from IRQ_MIN up that the trap layer passes,      *)
(* platform_irq reads int_handler_table only at indices below INT_VECTORS. *)
(* Checked under SpecTrap; the code breaks it.                             *)
(***************************************************************************)
C20_LookupInRange ==
    last.op = "dispatch" =>
        \A i \in 1..Len(lookups) : lookups[i] \in 0..(INT_VECTORS - 1)

(***************************************************************************)
(* C18.  platform_irq with a vector below IRQ_MIN panics before it reads   *)
(* the handler table: no handler is called, even if one is registered for  *)
(* the vector, no port is written, and the call does not return: the       *)
(* interrupt flag stays clear.  Checked under Spec.                        *)
(***************************************************************************)
C18_LowVectorFatal ==
    (last.op = "dispatch" /\ last.vector < IRQ_MIN) =>
        /\ halted
        /\ ~ints
        /\ ret = "PANIC"
        /\ lookups = <<>>
        /\ Calls(trace) = <<>>
        /\ Outs(trace) = <<>>
        /\ trace = << Ev("panic", 0, 0) >>

\* the system stopped in platform_irq(IRQ_MIN - 1) with a handler registered
\* for that vector, after a handler of another vector had run
C18_Witness ==
    /\ halted
    /\ last.op = "dispatch"
    /\ last.vector = IRQ_MIN - 1
    /\ int_handler_table.handler[IRQ_MIN - 1] # NULL
    /\ ctr[int_handler_table.arg[IRQ_MIN - 1]] = 0
    /\ \E a \in Contexts : ctr[a] > 0

(***************************************************************************)
(* C12.  No call ever finds the lock held when it comes to take it: it     *)
(* would spin for ever, the holder being a context the spinning one keeps  *)
(* from running.  And every call in progress returns, or the system stops  *)
(* in panic: the stack of calls empties again, whatever calls the kernel   *)
(* and the handlers make and wherever the interrupts arrive.  Checked      *)
(* under SpecSteps: the processor keeps executing, and takes at most       *)
(* MaxIrq interrupts.                                                      *)
(***************************************************************************)
C12_EveryCallReturns ==
    /\ []((Running /\ stack # <<>> /\ Stmt(Top) = "lock") => lock = 0)
    /\ (stack # <<>>) ~> (stack = <<>> \/ halted)

\* a handler called by platform_irq is inside register_int_handler, holding
\* the lock, while the unmask_interrupt call the interrupt cut short waits
\* below, about to take the lock
C12_Witness ==
    /\ Len(stack) = 3
    /\ stack[1].fn = "unmask"
    /\ Stmt(stack[1]) = "lock"
    /\ stack[2].fn = "irq"
    /\ stack[3].fn = "register"
    /\ stack[3].holds
    /\ lock = 1

\* the frames that hold the lock
Holders == {i \in 1..Len(stack) : stack[i].holds}

(***************************************************************************)
(* C15.  Once platform_init_interrupts has run: a statement that changes a *)
(* cached mask, a mask register or the handler table is executed with the  *)
(* lock held by the running frame and the interrupt flag clear; at most    *)
(* one frame holds the lock, it is the running one (no platform_irq frame  *)
(* or other call is above it), and the lock is held exactly when a frame   *)
(* holds it, the interrupt flag being clear; and a mask_interrupt,         *)
(* unmask_interrupt or register_int_handler call that returns leaves the   *)
(* lock free and the interrupt flag as it was when the call began.         *)
(* Checked under SpecSteps.                                                *)
(***************************************************************************)
C15_WritesUnderLock ==
    /\ [](/\ Cardinality(Holders) <= 1
          /\ \A i \in Holders : i = Len(stack)
          /\ (lock = 1) <=> (Holders # {})
          /\ (lock = 1) => ~ints)
    /\ [][/\ (/\ booted
              /\ \/ irqMask' # irqMask
                 \/ imr' # imr
                 \/ int_handler_table' # int_handler_table)
             => (/\ lock = 1
                 /\ ~ints
                 /\ stack # <<>>
                 /\ Top.holds
                 /\ lock' = 1
                 /\ ~ints')
          /\ (/\ stack # <<>>
              /\ Top.fn # "irq"
              /\ Len(stack') < Len(stack))
             => (/\ lock' = 0
                 /\ ints' = Top.was)]_vars

\* a handler called by platform_irq is inside mask_interrupt, past enable
\* and about to release the lock, having masked the slave line; the
\* interrupt came while the kernel was about to take the lock in
\* register_int_handler
C15_Witness ==
    /\ Len(stack) = 3
    /\ stack[1].fn = "register"
    /\ Stmt(stack[1]) = "lock"
    /\ stack[2].fn = "irq"
    /\ stack[3].fn = "mask"
    /\ Stmt(stack[3]) = "unlock"
    /\ stack[3].holds
    /\ ~stack[3].was
    /\ lock = 1
    /\ ~ints
    /\ imr[1] = 255
    /\ imr[0] # 255

(***************************************************************************)
(* C19.  On one processor, every handler platform_irq invokes for a vector *)
(* is invoked with the context it was registered with: the handler and the *)
(* arg that platform_irq uses are those of one register_int_handler call   *)
(* for that vector, and the handler is not NULL.  Checked under SpecSteps, *)
(* where interrupts arrive between any two statements executed with the    *)
(* interrupt flag set, and register_int_handler stores arg and handler in  *)
(* two statements.                                                         *)
(***************************************************************************)
C19_PairFromOneCall ==
    \A i \in 1..Len(stack) :
        (stack[i].fn = "irq" /\ stack[i].called)
        => (/\ stack[i].handler # NULL
            /\ <<stack[i].vector, stack[i].handler, stack[i].arg>>
                   \in installed)

\* platform_irq has called the second handler with its context; the
\* interrupt came when the kernel was about to take the lock to replace it
\* with the first
C19_Witness ==
    /\ Len(stack) = 2
    /\ stack[1].fn = "register"
    /\ stack[1].vector = PIC1_BASE + 1
    /\ stack[1].handler = 1
    /\ Stmt(stack[1]) = "lock"
    /\ stack[2].fn = "irq"
    /\ stack[2].vector = PIC1_BASE + 1
    /\ stack[2].called
    /\ stack[2].handler = 2
    /\ stack[2].arg = 2
    /\ ctr[2] = 1
    /\ int_handler_table.handler[PIC1_BASE + 1] = 2

====
